---- MODULE Spec2Model ----
(***************************************************************************)
(* direct-redis: the value codec of direct_redis/functions.py and the      *)
(* DirectRedis methods of direct_redis/direct_redis.py that wrap it around *)
(* the calls of the redis client.                                          *)
(*                                                                         *)
(* Python objects are records [t |-> type name, v |-> sequence of          *)
(* naturals]: v holds the code points of a str, the bytes of a bytes       *)
(* object, the number of an int, 0/1 of a bool, and is empty otherwise.    *)
(* Byte strings are sequences of 0..255, so that UTF-8 and pickle are      *)
(* computed on bytes as CPython computes them.                             *)
(***************************************************************************)
EXTENDS Integers, Sequences, FiniteSets, TLC

VARIABLES
    call,           \* the last DirectRedis method called, with its arguments
    pickle_first,   \* the caller's hint of the read
    ret,            \* outcome of the last call: what it returned or raised
    value,          \* the Python object handed to a write (or NoValue)
    encoded,        \* what the redis client hands back: None or bytes
    pc,             \* position of the codec / array scenario
    strings,        \* the store's string keys: key name -> None or bytes
    hashes,         \* the hash under the container key: field -> None or bytes
    members,        \* the set under the container key: a set of byte strings
    items           \* the list under the container key: a sequence of byte strings

vars == <<call, pickle_first, ret, value, encoded, pc, strings, hashes, members, items>>
codecVars == <<value, encoded, pc>>
store == <<strings, hashes, members, items>>

---------------------------------------------------------------------------
(* Bounds of the model. *)

MaxStrLen == 3      \* longest text value, in code points
MaxBytesLen == 4    \* longest raw byte string read from the store

---------------------------------------------------------------------------
(* Python objects. *)

PyNone == [t |-> "NoneType", v |-> <<>>]
PyBool(b) == [t |-> "bool", v |-> <<IF b THEN 1 ELSE 0>>]
PyInt(n) == [t |-> "int", v |-> <<n>>]
PyStr(cps) == [t |-> "str", v |-> cps]
PyBytes(bs) == [t |-> "bytes", v |-> bs]
PyEmptyList == [t |-> "list", v |-> <<>>]
\* a function object: pickle.dumps cannot represent it
PyLambda == [t |-> "function", v |-> <<>>]
\* no object at all (the scenario did not start from a write)
NoValue == [t |-> "absent", v |-> <<>>]

\* Outcome of a call: exc = "none" and val the returned object, or exc the
\* exception that left the call. calls lists, in order, the conversions the
\* call attempted ("loads" for pickle.loads, "decode" for bytes.decode).
Raise(exc, calls) == [exc |-> exc, calls |-> calls, val |-> PyNone]
Return(val, calls) == [exc |-> "none", calls |-> calls, val |-> val]
NoRet == [exc |-> "none", calls |-> <<>>, val |-> NoValue]

\* The arguments a mapping parameter is given: a dict (items is the sequence
\* of its <<key, value>> pairs, in the dict's order), a list of pairs, or
\* None when the parameter is left out.
DictArg(f) == [kind |-> "dict", items |-> f]
ListArg(q) == [kind |-> "list", items |-> q]
NoMapping == [kind |-> "NoneType", items |-> <<>>]
\* Python's truth value of such an argument
Truthy(m) == m.kind # "NoneType" /\ m.items # <<>>
PairKeys(q) == {q[i][1] : i \in DOMAIN q}
Lookup(q, k) == q[CHOOSE i \in DOMAIN q : q[i][1] = k][2]

\* A recorded call: the method, and the arguments it was given (those the
\* method does not take are left at their defaults).
NoKey == <<>>
Called(op, names, key, val, mapping, values) ==
    [op |-> op, names |-> names, key |-> key, value |-> val,
     mapping |-> mapping, values |-> values]
NoCall == Called("none", <<>>, NoKey, NoValue, NoMapping, <<>>)

---------------------------------------------------------------------------
(* UTF-8, as str.encode("utf-8") and bytes.decode("utf-8") compute it. *)

IsCont(b) == b >= 128 /\ b <= 191

\* the bytes of one code point (surrogates are not encodable and are not
\* among the code points the scenarios use)
EncodeCodePoint(cp) ==
    IF cp < 128 THEN <<cp>>
    ELSE IF cp < 2048 THEN <<192 + (cp \div 64), 128 + (cp % 64)>>
    ELSE IF cp < 65536 THEN
        <<224 + (cp \div 4096), 128 + ((cp \div 64) % 64), 128 + (cp % 64)>>
    ELSE <<240 + (cp \div 262144), 128 + ((cp \div 4096) % 64),
           128 + ((cp \div 64) % 64), 128 + (cp % 64)>>

RECURSIVE encode_utf8(_)
encode_utf8(cps) ==
    IF cps = <<>> THEN <<>>
    ELSE EncodeCodePoint(Head(cps)) \o encode_utf8(Tail(cps))

\* the length of the well-formed sequence starting at bs[i], 0 if none
SeqLenAt(bs, i) ==
    LET b == bs[i]
        n == Len(bs)
        c(k) == i + k <= n /\ IsCont(bs[i + k])
    IN  IF b < 128 THEN 1
        ELSE IF b >= 194 /\ b <= 223 THEN (IF c(1) THEN 2 ELSE 0)
        ELSE IF b = 224 THEN
            (IF c(1) /\ c(2) /\ bs[i + 1] >= 160 THEN 3 ELSE 0)
        ELSE IF b = 237 THEN
            (IF c(1) /\ c(2) /\ bs[i + 1] <= 159 THEN 3 ELSE 0)
        ELSE IF b >= 225 /\ b <= 239 THEN (IF c(1) /\ c(2) THEN 3 ELSE 0)
        ELSE IF b = 240 THEN
            (IF c(1) /\ c(2) /\ c(3) /\ bs[i + 1] >= 144 THEN 4 ELSE 0)
        ELSE IF b = 244 THEN
            (IF c(1) /\ c(2) /\ c(3) /\ bs[i + 1] <= 143 THEN 4 ELSE 0)
        ELSE IF b >= 241 /\ b <= 243 THEN
            (IF c(1) /\ c(2) /\ c(3) THEN 4 ELSE 0)
        ELSE 0

CodePointAt(bs, i, k) ==
    IF k = 1 THEN bs[i]
    ELSE IF k = 2 THEN (bs[i] - 192) * 64 + (bs[i + 1] - 128)
    ELSE IF k = 3 THEN
        (bs[i] - 224) * 4096 + (bs[i + 1] - 128) * 64 + (bs[i + 2] - 128)
    ELSE (bs[i] - 240) * 262144 + (bs[i + 1] - 128) * 4096
         + (bs[i + 2] - 128) * 64 + (bs[i + 3] - 128)

\* [ok |-> TRUE, cps |-> the text] or ok = FALSE for UnicodeDecodeError
RECURSIVE DecodeFrom(_, _, _)
DecodeFrom(bs, i, acc) ==
    IF i > Len(bs) THEN [ok |-> TRUE, cps |-> acc]
    ELSE LET k == SeqLenAt(bs, i)
         IN  IF k = 0 THEN [ok |-> FALSE, cps |-> <<>>]
             ELSE DecodeFrom(bs, i + k, Append(acc, CodePointAt(bs, i, k)))

decode_utf8(bs) == DecodeFrom(bs, 1, <<>>)

---------------------------------------------------------------------------
(* pickle, protocol 4 (the default of every Python the package supports),  *)
(* for None, bools, ints 0..255 and the empty list; the unpickler is the   *)
(* C unpickler's loop over the opcodes these use.                          *)

PROTO == 128
STOP == 46
NONE == 78
NEWTRUE == 136
NEWFALSE == 137
BININT1 == 75
EMPTY_LIST == 93
MEMOIZE == 148
DEFAULT_PROTOCOL == 4
HIGHEST_PROTOCOL == 5

\* pickle.dumps(value): the bytes, or PicklingError
pickle_dumps(val) ==
    LET body ==
            IF val.t = "NoneType" THEN <<NONE>>
            ELSE IF val.t = "bool" THEN
                <<IF val.v[1] = 1 THEN NEWTRUE ELSE NEWFALSE>>
            ELSE IF val.t = "int" THEN <<BININT1, val.v[1]>>
            ELSE <<EMPTY_LIST, MEMOIZE>>
    IN  IF val.t \in {"NoneType", "bool", "int", "list"}
        THEN Return(PyBytes(<<PROTO, DEFAULT_PROTOCOL>> \o body \o <<STOP>>), <<>>)
        ELSE Raise("PicklingError", <<>>)

\* The unpickler's loop from position i with the top of its stack (stack is
\* empty or holds the top object; no opcode modelled here pops below it).
\* Reading an opcode past the end is EOFError, reading an argument past the
\* end is UnpicklingError ("pickle data was truncated"); an unknown opcode,
\* and STOP or MEMOIZE on an empty stack, are UnpicklingError; a protocol
\* above the highest is ValueError. Bytes after STOP are not read.
RECURSIVE Load(_, _, _)
Load(bs, i, stack) ==
    IF i > Len(bs) THEN Raise("EOFError", <<>>)
    ELSE LET op == bs[i]
             hasArg == i + 1 <= Len(bs)
         IN  IF op = PROTO THEN
                 IF ~hasArg THEN Raise("PickleError", <<>>)
                 ELSE IF bs[i + 1] > HIGHEST_PROTOCOL THEN Raise("ValueError", <<>>)
                 ELSE Load(bs, i + 2, stack)
             ELSE IF op = NONE THEN Load(bs, i + 1, <<PyNone>>)
             ELSE IF op = NEWTRUE THEN Load(bs, i + 1, <<PyBool(TRUE)>>)
             ELSE IF op = NEWFALSE THEN Load(bs, i + 1, <<PyBool(FALSE)>>)
             ELSE IF op = EMPTY_LIST THEN Load(bs, i + 1, <<PyEmptyList>>)
             ELSE IF op = BININT1 THEN
                 IF ~hasArg THEN Raise("PickleError", <<>>)
                 ELSE Load(bs, i + 2, <<PyInt(bs[i + 1])>>)
             ELSE IF op = MEMOIZE THEN
                 IF stack = <<>> THEN Raise("PickleError", <<>>)
                 ELSE Load(bs, i + 1, stack)
             ELSE IF op = STOP THEN
                 IF stack = <<>> THEN Raise("PickleError", <<>>)
                 ELSE Return(stack[1], <<>>)
             ELSE Raise("PickleError", <<>>)

\* pickle.loads(bytes): the object, or the exception it raises
pickle_loads(bs) == Load(bs, 1, <<>>)

---------------------------------------------------------------------------
(* direct_redis/functions.py *)

\* convert_set_type(value): a str is returned as it is, anything else pickled
convert_set_type(val) ==
    IF val.t = "str" THEN Return(val, <<>>)
    ELSE pickle_dumps(val)

\* What the redis client puts on the wire for an argument convert_set_type
\* returned: a str is encoded as UTF-8, bytes are sent as they are.
ClientEncode(obj) ==
    IF obj.t = "str" THEN encode_utf8(obj.v) ELSE obj.v

\* the same function with the fallback of line 68-72 left out
convert_get_type_no_fallback(enc, pf) ==
    IF enc = PyNone THEN Return(PyNone, <<>>)
    ELSE LET first == pickle_loads(enc.v)
             text == decode_utf8(enc.v)
             pre == IF pf THEN <<"loads">> ELSE <<>>
         IN  IF pf /\ first.exc = "none" THEN Return(first.val, <<"loads">>)
             ELSE IF pf /\ first.exc # "PickleError" THEN Raise(first.exc, <<"loads">>)
             ELSE IF text.ok THEN Return(PyStr(text.cps), pre \o <<"decode">>)
             ELSE Return(enc, pre \o <<"decode">>)

\* convert_get_type(encoded, pickle_first). Only pickle.PickleError is
\* caught around pickle.loads: any other exception leaves the function.
convert_get_type(enc, pf) ==
    IF enc = PyNone THEN Return(PyNone, <<>>)
    ELSE LET first == pickle_loads(enc.v)
             text == decode_utf8(enc.v)
             second == pickle_loads(enc.v)
             pre == IF pf THEN <<"loads">> ELSE <<>>
         IN  IF pf /\ first.exc = "none" THEN Return(first.val, <<"loads">>)
             ELSE IF pf /\ first.exc # "PickleError" THEN Raise(first.exc, <<"loads">>)
             ELSE IF text.ok THEN Return(PyStr(text.cps), pre \o <<"decode">>)
             ELSE IF ~pf THEN
                 IF second.exc = "none"
                 THEN Return(second.val, <<"decode", "loads">>)
                 ELSE IF second.exc # "PickleError"
                 THEN Raise(second.exc, <<"decode", "loads">>)
                 ELSE Return(enc, <<"decode", "loads">>)
             ELSE Return(enc, pre \o <<"decode">>)

---------------------------------------------------------------------------
(* The inputs of the scenarios. *)

\* sequences over S of length 0..n
RECURSIVE SeqsUpTo(_, _)
SeqsUpTo(S, n) ==
    IF n = 0 THEN {<<>>}
    ELSE LET shorter == SeqsUpTo(S, n - 1)
         IN  shorter \cup {Append(s, x) : s \in {t \in shorter : Len(t) = n - 1}, x \in S}

\* code points of the text values: N . K (pickle opcodes), U+0004, e-acute
TextAlphabet == {78, 46, 75, 4, 233}
\* bytes of the raw strings: PROTO, 4, N, ., K, NEWTRUE, and the two bytes
\* of e-acute
ByteAlphabet == {128, 4, 78, 46, 75, 136, 195, 169}

TextValues == {PyStr(s) : s \in SeqsUpTo(TextAlphabet, MaxStrLen)}
ObjectValues ==
    {PyNone, PyBool(TRUE), PyBool(FALSE), PyEmptyList}
        \cup {PyInt(n) : n \in {0, 1, 75, 255}}
RawBytes == {PyBytes(b) : b \in SeqsUpTo(ByteAlphabet, MaxBytesLen)}

---------------------------------------------------------------------------
(* The store behind the redis client. String values live under the key     *)
(* names of KeyNames; one more key, the container key, holds a hash, a set or  *)
(* a list: one type at a time, as in Redis, where a command of another     *)
(* type is refused (WRONGTYPE, a ResponseError of the client) and a        *)
(* container that becomes empty frees its key.                             *)

MaxNames == 2       \* most names in one mget / hmget
MaxArgs == 2        \* most values in one sadd / srem / lpush / rpush
MaxListLen == 2     \* longest list the store holds

KeyText == <<107>>                  \* the name "k"
KeyBinary == <<128, 4, 78, 46>>     \* the name b"\x80\x04N.": not UTF-8
KeyNames == {KeyText, KeyBinary}
ContainerName == <<99>>             \* the name "c"

\* values the string and hash writes are given: "", None, a function
WriteValues == {PyStr(<<>>), PyNone, PyLambda}
\* values the set writes are given: "N.", None, True, 1, [], a function
MemberValues ==
    {PyStr(<<78, 46>>), PyNone, PyBool(TRUE), PyInt(1), PyEmptyList, PyLambda}

Dicts(V) ==
    {DictArg(q) : q \in {p \in SeqsUpTo(KeyNames \X V, Cardinality(KeyNames)) :
                            \A i, j \in DOMAIN p : i # j => p[i][1] # p[j][1]}}
\* arguments that are no mapping: [] and [("k", None)]
NonMappings == {ListArg(<<>>), ListArg(<< <<KeyText, PyNone>> >>)}
ArgLists(V) == SeqsUpTo(V, MaxArgs) \ {<<>>}
NameLists == SeqsUpTo(KeyNames, MaxNames) \ {<<>>}

HashFields == {f \in KeyNames : hashes[f] # PyNone}
ContainerType ==
    IF HashFields # {} THEN "hash"
    ELSE IF members # {} THEN "set"
    ELSE IF items # <<>> THEN "list"
    ELSE "none"
\* the container key is free or holds this type
Holds(type) == ContainerType \in {"none", type}
ExistingKeys ==
    {k \in KeyNames : strings[k] # PyNone}
        \cup (IF ContainerType = "none" THEN {} ELSE {ContainerName})

\* the type names the server answers TYPE with, as ASCII bytes
TypeName(type) ==
    IF type = "string" THEN <<115, 116, 114, 105, 110, 103>>
    ELSE IF type = "hash" THEN <<104, 97, 115, 104>>
    ELSE IF type = "set" THEN <<115, 101, 116>>
    ELSE IF type = "list" THEN <<108, 105, 115, 116>>
    ELSE <<110, 111, 110, 101>>

\* the orders in which the server may list the elements of S
Orders(S) ==
    {q \in [1..Cardinality(S) -> S] : \A i, j \in DOMAIN q : i # j => q[i] # q[j]}

\* no call made yet, on an empty database
EmptyStore ==
    /\ call = NoCall
    /\ strings = [k \in KeyNames |-> PyNone]
    /\ hashes = [k \in KeyNames |-> PyNone]
    /\ members = {}
    /\ items = <<>>

InitStore ==
    /\ value = NoValue
    /\ encoded = PyNone
    /\ pc = "idle"
    /\ pickle_first = FALSE
    /\ ret = NoRet
    /\ EmptyStore

\* a call that ends without writing: it raised, or it only read
Ends(outcome) ==
    /\ ret' = outcome
    /\ UNCHANGED store

---------------------------------------------------------------------------
(* direct_redis/functions.py, the helpers of the bulk calls *)

\* {k: convert_set_type(v) for k, v in dic.items()} from the pair at the
\* head on: the keys as they are, every value converted, and the error of
\* the first value that cannot be converted
RECURSIVE ConvertItems(_, _)
ConvertItems(pairs, acc) ==
    IF pairs = <<>> THEN Return(acc, <<>>)
    ELSE LET c == convert_set_type(Head(pairs)[2])
         IN  IF c.exc # "none" THEN c
             ELSE ConvertItems(Tail(pairs), Append(acc, <<Head(pairs)[1], c.val>>))

\* the same comprehension leaving out the values that cannot be converted
RECURSIVE ConvertItemsSkipping(_, _)
ConvertItemsSkipping(pairs, acc) ==
    IF pairs = <<>> THEN Return(acc, <<>>)
    ELSE LET c == convert_set_type(Head(pairs)[2])
         IN  IF c.exc # "none" THEN ConvertItemsSkipping(Tail(pairs), acc)
             ELSE ConvertItemsSkipping(Tail(pairs),
                                       Append(acc, <<Head(pairs)[1], c.val>>))

convert_set_mapping_dic_skipping(dic) ==
    IF dic.kind # "dict" THEN Raise("AttributeError", <<>>)
    ELSE ConvertItemsSkipping(dic.items, <<>>)

\* convert_set_mapping_dic(dic); an argument without .items() ends it with
\* AttributeError
convert_set_mapping_dic(dic) ==
    IF dic.kind # "dict" THEN Raise("AttributeError", <<>>)
    ELSE ConvertItems(dic.items, <<>>)

\* [convert_set_type(value) for value in values]: the converted values, or
\* the error of the first that cannot be converted
RECURSIVE ConvertEach(_, _)
ConvertEach(values, acc) ==
    IF values = <<>> THEN Return(acc, <<>>)
    ELSE LET c == convert_set_type(Head(values))
         IN  IF c.exc # "none" THEN c
             ELSE ConvertEach(Tail(values), Append(acc, c.val))

\* [convert_get_type(value, pickle_first) for value in encoded]: the decoded
\* values in order, or the exception of the first element that raises
RECURSIVE DecodeEach(_, _, _)
DecodeEach(encs, pf, acc) ==
    IF encs = <<>> THEN acc
    ELSE LET r == convert_get_type(Head(encs), pf)
         IN  IF r.exc # "none" THEN Raise(r.exc, acc.calls \o r.calls)
             ELSE DecodeEach(Tail(encs), pf,
                             Return(Append(acc.val, r.val), acc.calls \o r.calls))

AsBytes(names) == [i \in DOMAIN names |-> PyBytes(names[i])]

---------------------------------------------------------------------------
(* direct_redis/direct_redis.py: string keys *)

\* set(name, value)
SetCall(name, val) ==
    /\ call' = Called("set", <<name>>, NoKey, val, NoMapping, <<>>)
    /\ LET conv == convert_set_type(val)
       IN  IF conv.exc # "none" THEN Ends(conv)
           ELSE /\ strings' = [strings EXCEPT ![name] = PyBytes(ClientEncode(conv.val))]
                /\ ret' = Return(PyBool(TRUE), <<>>)
                /\ UNCHANGED <<hashes, members, items>>
    /\ UNCHANGED <<codecVars, pickle_first>>

Set == \E name \in KeyNames, val \in WriteValues : SetCall(name, val)

\* get(name, pickle_first)
Get ==
    \E name \in KeyNames, pf \in BOOLEAN :
        /\ call' = Called("get", <<name>>, NoKey, NoValue, NoMapping, <<>>)
        /\ pickle_first' = pf
        /\ Ends(convert_get_type(strings[name], pf))
        /\ UNCHANGED codecVars

\* mset(mapping); the server refuses an MSET without pairs
MsetCall(mapping) ==
    /\ call' = Called("mset", <<>>, NoKey, NoValue, mapping, <<>>)
    /\ IF mapping.kind # "dict" THEN Ends(Raise("ValueError", <<>>))
       ELSE LET conv == convert_set_mapping_dic(mapping)
            IN  IF conv.exc # "none" THEN Ends(conv)
                ELSE IF conv.val = <<>>
                THEN Ends(Raise("ResponseError", <<>>))
                ELSE /\ strings' =
                            [k \in KeyNames |->
                                IF k \in PairKeys(conv.val)
                                THEN PyBytes(ClientEncode(Lookup(conv.val, k)))
                                ELSE strings[k]]
                     /\ ret' = Return(PyBool(TRUE), <<>>)
                     /\ UNCHANGED <<hashes, members, items>>
    /\ UNCHANGED <<codecVars, pickle_first>>

Mset == \E mapping \in Dicts(WriteValues) \cup NonMappings : MsetCall(mapping)

\* mget(*names, pickle_first)
Mget ==
    \E names \in NameLists, pf \in BOOLEAN :
        /\ call' = Called("mget", names, NoKey, NoValue, NoMapping, <<>>)
        /\ pickle_first' = pf
        /\ Ends(DecodeEach([i \in DOMAIN names |-> strings[names[i]]], pf,
                           Return(<<>>, <<>>)))
        /\ UNCHANGED codecVars

\* keys(): the names of the keys that exist, in the server's order
Keys ==
    \E order \in Orders(ExistingKeys) :
        /\ call' = Called("keys", <<>>, NoKey, NoValue, NoMapping, <<>>)
        /\ pickle_first' = FALSE
        /\ Ends(DecodeEach(AsBytes(order), FALSE, Return(<<>>, <<>>)))
        /\ UNCHANGED codecVars

\* randomkey(): None in an empty database, else the name of some key
Randomkey ==
    \E enc \in (IF ExistingKeys = {} THEN {PyNone}
                ELSE {PyBytes(k) : k \in ExistingKeys}) :
        /\ call' = Called("randomkey", <<>>, NoKey, NoValue, NoMapping, <<>>)
        /\ pickle_first' = FALSE
        /\ Ends(convert_get_type(enc, FALSE))
        /\ UNCHANGED codecVars

\* type(name)
Type ==
    \E name \in KeyNames \cup {ContainerName} :
        /\ call' = Called("type", <<name>>, NoKey, NoValue, NoMapping, <<>>)
        /\ pickle_first' = FALSE
        /\ LET type == IF name = ContainerName THEN ContainerType
                       ELSE IF strings[name] # PyNone THEN "string"
                       ELSE "none"
           IN  Ends(convert_get_type(PyBytes(TypeName(type)), FALSE))
        /\ UNCHANGED codecVars

---------------------------------------------------------------------------
(* direct_redis/direct_redis.py: the hash under the container key *)

\* HSET of converted fields, as the server carries it out
HashWrite(conv) ==
    IF ~Holds("hash") THEN Ends(Raise("ResponseError", <<>>))
    ELSE /\ hashes' = [f \in KeyNames |->
                          IF f \in PairKeys(conv)
                          THEN PyBytes(ClientEncode(Lookup(conv, f)))
                          ELSE hashes[f]]
         /\ ret' = Return(PyInt(Cardinality(PairKeys(conv) \ HashFields)), <<>>)
         /\ UNCHANGED <<strings, members, items>>

\* hset(name, key, value, mapping): a mapping that is true replaces key and
\* value; otherwise key and the converted value are passed on, and the
\* client refuses a call that has neither a key nor pairs (DataError)
HsetCall(key, val, mapping) ==
    /\ call' = Called("hset", <<>>, key, val, mapping, <<>>)
    /\ IF Truthy(mapping)
       THEN LET conv == convert_set_mapping_dic(mapping)
            IN  IF conv.exc # "none" THEN Ends(conv) ELSE HashWrite(conv.val)
       ELSE LET c == convert_set_type(val)
            IN  IF c.exc # "none" THEN Ends(c)
                ELSE IF key = NoKey THEN Ends(Raise("DataError", <<>>))
                ELSE HashWrite(<< <<key, c.val>> >>)
    /\ UNCHANGED <<codecVars, pickle_first>>

Hset ==
    \E key \in KeyNames \cup {NoKey}, val \in WriteValues,
       mapping \in {NoMapping} \cup Dicts(WriteValues) \cup NonMappings :
        /\ Truthy(mapping) => (key = NoKey /\ val = PyNone)
        /\ HsetCall(key, val, mapping)

\* hmset(name, mapping); the client refuses an empty mapping (DataError)
HmsetCall(mapping) ==
    /\ call' = Called("hmset", <<>>, NoKey, NoValue, mapping, <<>>)
    /\ IF mapping.kind # "dict" THEN Ends(Raise("ValueError", <<>>))
       ELSE LET conv == convert_set_mapping_dic(mapping)
            IN  IF conv.exc # "none" THEN Ends(conv)
                ELSE IF conv.val = <<>> THEN Ends(Raise("DataError", <<>>))
                ELSE IF ~Holds("hash") THEN Ends(Raise("ResponseError", <<>>))
                ELSE /\ hashes' =
                            [f \in KeyNames |->
                                IF f \in PairKeys(conv.val)
                                THEN PyBytes(ClientEncode(Lookup(conv.val, f)))
                                ELSE hashes[f]]
                     /\ ret' = Return(PyBool(TRUE), <<>>)
                     /\ UNCHANGED <<strings, members, items>>
    /\ UNCHANGED <<codecVars, pickle_first>>

Hmset == \E mapping \in Dicts(WriteValues) \cup NonMappings : HmsetCall(mapping)

\* hget(name, key, pickle_first)
Hget ==
    \E key \in KeyNames, pf \in BOOLEAN :
        /\ call' = Called("hget", <<>>, key, NoValue, NoMapping, <<>>)
        /\ pickle_first' = pf
        /\ Ends(IF Holds("hash") THEN convert_get_type(hashes[key], pf)
                ELSE Raise("ResponseError", <<>>))
        /\ UNCHANGED codecVars

\* hmget(name, keys, pickle_first)
Hmget ==
    \E names \in NameLists, pf \in BOOLEAN :
        /\ call' = Called("hmget", names, NoKey, NoValue, NoMapping, <<>>)
        /\ pickle_first' = pf
        /\ Ends(IF Holds("hash")
                THEN DecodeEach([i \in DOMAIN names |-> hashes[names[i]]], pf,
                                Return(<<>>, <<>>))
                ELSE Raise("ResponseError", <<>>))
        /\ UNCHANGED codecVars

\* hkeys(name): the fields of the hash, in the server's order
Hkeys ==
    \E order \in Orders(HashFields) :
        /\ call' = Called("hkeys", <<>>, NoKey, NoValue, NoMapping, <<>>)
        /\ pickle_first' = FALSE
        /\ Ends(IF Holds("hash")
                THEN DecodeEach(AsBytes(order), FALSE, Return(<<>>, <<>>))
                ELSE Raise("ResponseError", <<>>))
        /\ UNCHANGED codecVars

---------------------------------------------------------------------------
(* direct_redis/direct_redis.py: the set under the container key *)

WireSet(objs) == {ClientEncode(objs[i]) : i \in DOMAIN objs}

\* Python's == between the objects modelled (a bool is an int)
PyEq(a, b) ==
    \/ a = b
    \/ (a.t \in {"bool", "int"} /\ b.t \in {"bool", "int"} /\ a.v = b.v)
PyHashable(a) == a.t # "list"

\* {convert_get_type(value, pickle_first) for value in encoded}: a Python
\* set built element by element; an element equal to one already in it is
\* not added, an unhashable one raises TypeError
RECURSIVE BuildSet(_, _, _)
BuildSet(encs, pf, acc) ==
    IF encs = <<>> THEN acc
    ELSE LET r == convert_get_type(Head(encs), pf)
             calls == acc.calls \o r.calls
         IN  IF r.exc # "none" THEN Raise(r.exc, calls)
             ELSE IF ~PyHashable(r.val) THEN Raise("TypeError", calls)
             ELSE IF \E x \in acc.val : PyEq(x, r.val)
             THEN BuildSet(Tail(encs), pf, Return(acc.val, calls))
             ELSE BuildSet(Tail(encs), pf, Return(acc.val \cup {r.val}, calls))

\* sadd(name, *values)
SaddCall(values) ==
    /\ call' = Called("sadd", <<>>, NoKey, NoValue, NoMapping, values)
    /\ LET conv == ConvertEach(values, <<>>)
       IN  IF conv.exc # "none" THEN Ends(conv)
           ELSE IF ~Holds("set") THEN Ends(Raise("ResponseError", <<>>))
           ELSE /\ members' = members \cup WireSet(conv.val)
                /\ ret' = Return(PyInt(Cardinality(WireSet(conv.val) \ members)), <<>>)
                /\ UNCHANGED <<strings, hashes, items>>
    /\ UNCHANGED <<codecVars, pickle_first>>

Sadd == \E values \in ArgLists(MemberValues) : SaddCall(values)

\* srem(name, *values)
SremCall(values) ==
    /\ call' = Called("srem", <<>>, NoKey, NoValue, NoMapping, values)
    /\ LET conv == ConvertEach(values, <<>>)
       IN  IF conv.exc # "none" THEN Ends(conv)
           ELSE IF ~Holds("set") THEN Ends(Raise("ResponseError", <<>>))
           ELSE /\ members' = members \ WireSet(conv.val)
                /\ ret' = Return(PyInt(Cardinality(WireSet(conv.val) \cap members)), <<>>)
                /\ UNCHANGED <<strings, hashes, items>>
    /\ UNCHANGED <<codecVars, pickle_first>>

Srem == \E values \in ArgLists(MemberValues) : SremCall(values)

\* sismember(name, value)
Sismember ==
    \E val \in MemberValues :
        /\ call' = Called("sismember", <<>>, NoKey, val, NoMapping, <<>>)
        /\ LET c == convert_set_type(val)
           IN  Ends(IF c.exc # "none" THEN c
                    ELSE IF ~Holds("set") THEN Raise("ResponseError", <<>>)
                    ELSE Return(PyBool(ClientEncode(c.val) \in members), <<>>))
        /\ UNCHANGED <<codecVars, pickle_first>>

\* smembers(name, pickle_first): the members come in the server's order
Smembers ==
    \E order \in Orders(members), pf \in BOOLEAN :
        /\ call' = Called("smembers", <<>>, NoKey, NoValue, NoMapping, <<>>)
        /\ pickle_first' = pf
        /\ Ends(IF Holds("set") THEN BuildSet(AsBytes(order), pf, Return({}, <<>>))
                ELSE Raise("ResponseError", <<>>))
        /\ UNCHANGED codecVars

\* sdiff(keys) of the one set: its members, decoded without the hint
Sdiff ==
    \E order \in Orders(members) :
        /\ call' = Called("sdiff", <<ContainerName>>, NoKey, NoValue, NoMapping, <<>>)
        /\ pickle_first' = FALSE
        /\ Ends(IF Holds("set") THEN BuildSet(AsBytes(order), FALSE, Return({}, <<>>))
                ELSE Raise("ResponseError", <<>>))
        /\ UNCHANGED codecVars

---------------------------------------------------------------------------
(* direct_redis/direct_redis.py: the list under the container key *)

RECURSIVE Reverse(_)
Reverse(q) == IF q = <<>> THEN <<>> ELSE Append(Reverse(Tail(q)), Head(q))

WireList(objs) == [i \in DOMAIN objs |-> ClientEncode(objs[i])]

\* lpush(name, *values): each value in turn goes to the head
LpushCall(values) ==
    /\ Len(items) + Len(values) <= MaxListLen
    /\ call' = Called("lpush", <<>>, NoKey, NoValue, NoMapping, values)
    /\ LET conv == ConvertEach(values, <<>>)
       IN  IF conv.exc # "none" THEN Ends(conv)
           ELSE IF ~Holds("list") THEN Ends(Raise("ResponseError", <<>>))
           ELSE /\ items' = Reverse(WireList(conv.val)) \o items
                /\ ret' = Return(PyInt(Len(items) + Len(values)), <<>>)
                /\ UNCHANGED <<strings, hashes, members>>
    /\ UNCHANGED <<codecVars, pickle_first>>

Lpush == \E values \in ArgLists(WriteValues) : LpushCall(values)

\* rpush(name, *values): each value in turn goes to the tail
RpushCall(values) ==
    /\ Len(items) + Len(values) <= MaxListLen
    /\ call' = Called("rpush", <<>>, NoKey, NoValue, NoMapping, values)
    /\ LET conv == ConvertEach(values, <<>>)
       IN  IF conv.exc # "none" THEN Ends(conv)
           ELSE IF ~Holds("list") THEN Ends(Raise("ResponseError", <<>>))
           ELSE /\ items' = items \o WireList(conv.val)
                /\ ret' = Return(PyInt(Len(items) + Len(values)), <<>>)
                /\ UNCHANGED <<strings, hashes, members>>
    /\ UNCHANGED <<codecVars, pickle_first>>

Rpush == \E values \in ArgLists(WriteValues) : RpushCall(values)

\* sadd with the values of the other bulk writes
SaddWrite == \E values \in ArgLists(WriteValues) : SaddCall(values)

---------------------------------------------------------------------------
(* The scenarios. *)

(* The codec scenario: a value is written with set and read with get, or   *)
(* get reads bytes that something else left in the store.                  *)

InitCodec ==
    /\ pickle_first \in BOOLEAN
    /\ ret = NoRet
    /\ EmptyStore
    /\ \/ /\ pc = "set"
          /\ value \in TextValues \cup ObjectValues \cup {PyLambda}
          /\ encoded = PyNone
       \/ /\ pc = "stored"
          /\ value = NoValue
          /\ encoded \in RawBytes \cup {PyNone}

\* DirectRedis.set(name, value) on a fresh key: the converted value goes to
\* the store, or the pickling error leaves the call
CodecSet ==
    /\ pc = "set"
    /\ LET conv == convert_set_type(value)
       IN  IF conv.exc = "none"
           THEN /\ encoded' = PyBytes(ClientEncode(conv.val))
                /\ ret' = Return(PyBool(TRUE), <<>>)
                /\ pc' = "stored"
           ELSE /\ encoded' = encoded
                /\ ret' = conv
                /\ pc' = "failed"
    /\ UNCHANGED <<value, pickle_first, call, store>>

\* DirectRedis.get(name, pickle_first)
CodecGet ==
    /\ pc = "stored"
    /\ ret' = convert_get_type(encoded, pickle_first)
    /\ pc' = "got"
    /\ UNCHANGED <<value, encoded, pickle_first, call, store>>

NextCodec == CodecSet \/ CodecGet

SpecCodec == InitCodec /\ [][NextCodec]_vars

\* the string keys and the hash, written and read
NextKV ==
    \/ Set \/ Get \/ Mset \/ Mget \/ Keys \/ Randomkey \/ Type
    \/ Hset \/ Hmset \/ Hget \/ Hmget \/ Hkeys

SpecKV == InitStore /\ [][NextKV]_vars

\* the set, written and read
NextSet == Sadd \/ Srem \/ Sismember \/ Smembers \/ Sdiff

SpecSet == InitStore /\ [][NextSet]_vars

\* the writes that take several values
NextWrites == Mset \/ Hmset \/ Hset \/ SaddWrite \/ Lpush \/ Rpush

SpecWrites == InitStore /\ [][NextWrites]_vars

---------------------------------------------------------------------------
(* direct_redis/functions.py: the NumPy array codec. An array is           *)
(* [dtype |-> its type number, shape |-> its dimensions, v |-> its         *)
(* elements in C order].                                                   *)

MaxDim == 2         \* largest dimension of an array

UINT8 == 2          \* numpy.uint8.num
UINT16 == 4         \* numpy.uint16.num
HeaderLen == 16

NdArray(dtype, shape, elems) ==
    [t |-> "ndarray", dtype |-> dtype, shape |-> shape, v |-> elems]

\* np.typeDict: the type numbers known here, with the element sizes
TypeNums == {UINT8, UINT16}
ItemSize(dtype) == IF dtype = UINT8 THEN 1 ELSE 2

RECURSIVE Product(_)
Product(q) == IF q = <<>> THEN 1 ELSE Head(q) * Product(Tail(q))

\* struct.pack(">I", n) and its inverse
BE32(n) == <<(n \div 16777216) % 256, (n \div 65536) % 256, (n \div 256) % 256, n % 256>>
UnBE32(bs, i) == bs[i] * 16777216 + bs[i + 1] * 65536 + bs[i + 2] * 256 + bs[i + 3]

\* ndarray.tobytes(): the elements one after the other, each in the
\* machine's byte order (little-endian here; both directions use the same)
RECURSIVE ToBytes(_, _)
ToBytes(elems, size) ==
    IF elems = <<>> THEN <<>>
    ELSE (IF size = 1 THEN <<Head(elems)>>
          ELSE <<Head(elems) % 256, Head(elems) \div 256>>)
         \o ToBytes(Tail(elems), size)

\* np.frombuffer(encoded, offset, dtype): the elements of a flat array
FromBuffer(bs, offset, size) ==
    [i \in 1..((Len(bs) - offset) \div size) |->
        IF size = 1 THEN bs[offset + i]
        ELSE bs[offset + 2 * i - 1] + 256 * bs[offset + 2 * i]]

\* serialize_np(np_array)
serialize_np(arr) ==
    LET shape == arr.shape
        n == Len(shape)
        d1 == shape[1]
        d2 == IF n >= 2 THEN shape[2] ELSE 0
        d3 == IF n = 3 THEN shape[3] ELSE 0
    IN  IF n \in {1, 2, 3}
        THEN Return(PyBytes(BE32(arr.dtype) \o BE32(d1) \o BE32(d2) \o BE32(d3)
                            \o ToBytes(arr.v, ItemSize(arr.dtype))), <<>>)
        ELSE Raise("ValueError", <<>>)

\* unserialize_np(encoded); reshape raises ValueError when the dimensions
\* do not multiply to the number of elements
unserialize_np(enc) ==
    LET bs == enc.v
        dtype == UnBE32(bs, 1)
        d1 == UnBE32(bs, 5)
        d2 == UnBE32(bs, 9)
        d3 == UnBE32(bs, 13)
        size == ItemSize(dtype)
        flat == FromBuffer(bs, HeaderLen, size)
        Reshape(shape) ==
            IF Product(shape) = Len(flat)
            THEN Return(NdArray(dtype, shape, flat), <<>>)
            ELSE Raise("ValueError", <<>>)
    IN  IF dtype \notin TypeNums THEN Raise("KeyError", <<>>)
        ELSE IF (Len(bs) - HeaderLen) % size # 0 THEN Raise("ValueError", <<>>)
        ELSE IF d3 # 0 THEN Reshape(<<d1, d2, d3>>)
        ELSE IF d2 # 0 THEN Reshape(<<d1, d2>>)
        ELSE Return(NdArray(dtype, <<Len(flat)>>, flat), <<>>)

\* the arrays of the scenario: every shape of 0 to 4 dimensions, filled
\* with distinct numbers that use every byte of an element
Fill(dtype, n) == [i \in 1..n |-> IF dtype = UINT8 THEN i ELSE 259 * i]
Arrays ==
    {NdArray(dtype, shape, Fill(dtype, Product(shape))) :
        dtype \in TypeNums, shape \in SeqsUpTo(0..MaxDim, 4)}

InitNp ==
    /\ pc = "np_start"
    /\ value \in Arrays
    /\ encoded = PyNone
    /\ pickle_first = FALSE
    /\ ret = NoRet
    /\ EmptyStore

NpSerialize ==
    /\ pc = "np_start"
    /\ LET r == serialize_np(value)
       IN  IF r.exc = "none"
           THEN encoded' = r.val /\ pc' = "np_packed" /\ ret' = ret
           ELSE encoded' = encoded /\ pc' = "np_failed" /\ ret' = r
    /\ UNCHANGED <<value, pickle_first, call, store>>

NpUnserialize ==
    /\ pc = "np_packed"
    /\ ret' = unserialize_np(encoded)
    /\ pc' = "np_done"
    /\ UNCHANGED <<value, encoded, pickle_first, call, store>>

NextNp == NpSerialize \/ NpUnserialize

SpecNp == InitNp /\ [][NextNp]_vars

---------------------------------------------------------------------------
(* Claims about the codec, checked under SpecCodec. *)

UsesLoads(calls) == \E i \in 1..Len(calls) : calls[i] = "loads"
LoadsCount(calls) == Cardinality({i \in 1..Len(calls) : calls[i] = "loads"})

\* C1: every text value written with set comes back from get as exactly the
\* same text, with either value of the hint (the empty text and texts whose
\* bytes pickle.loads accepts included).
C1_TextRoundTrip ==
    (pc = "got" /\ value.t = "str")
        => (ret.exc = "none" /\ ret.val = value)

\* C2: every picklable non-text value written with set comes back from get
\* equal to itself when pickle_first is true, and also when it is false and
\* the pickled bytes are not valid UTF-8.
C2_ObjectRoundTrip ==
    (/\ pc = "got"
     /\ value.t \in {"NoneType", "bool", "int", "list"}
     /\ (pickle_first \/ ~decode_utf8(encoded.v).ok))
        => (ret.exc = "none" /\ ret.val = value)

\* a non-text value read back without the hint, through the fallback
C2_Witness ==
    /\ pc = "got"
    /\ value = PyEmptyList
    /\ ~pickle_first
    /\ ~decode_utf8(encoded.v).ok
    /\ ret = Return(PyEmptyList, <<"decode", "loads">>)

\* C3: convert_get_type never raises: None gives None, and any bytes with
\* either hint give some value.
C3_Total ==
    pc = "got"
        => (/\ ret.exc = "none"
            /\ (encoded = PyNone => ret.val = PyNone))

\* C9: convert_get_type tries pickle.loads at most once; with the hint only
\* before the UTF-8 decoding, without it only after the decoding failed, so
\* that valid UTF-8 comes back as text; bytes that neither pickle.loads nor
\* the decoding accept come back unchanged, with either hint.
C9_Precedence ==
    (pc = "got" /\ encoded # PyNone)
        => LET text == decode_utf8(encoded.v)
               loaded == pickle_loads(encoded.v)
           IN  /\ LoadsCount(ret.calls) <= 1
               /\ pickle_first => (ret.calls[1] = "loads")
               /\ (pickle_first /\ loaded.exc = "none")
                      => ret = Return(loaded.val, <<"loads">>)
               /\ ~pickle_first
                      => (/\ ret.calls[1] = "decode"
                          /\ (UsesLoads(ret.calls) <=> ~text.ok)
                          /\ text.ok => ret = Return(PyStr(text.cps), <<"decode">>))
               /\ (~text.ok /\ loaded.exc # "none")
                      => (ret.exc = "none" /\ ret.val = encoded)

---------------------------------------------------------------------------
(* Claims about the DirectRedis methods. *)

\* the table a bulk read reads: the string keys for mget, the hash for hmget
BulkTable == IF call.op = "mget" THEN strings ELSE hashes

\* C4 (SpecKV): after any writes, mget (hmget) of k names returns a list of
\* exactly k elements, element i the decoded value stored under name i and
\* None where the name is absent.
C4_BulkGetPositional ==
    call.op \in {"mget", "hmget"} =>
        /\ ret.exc = "none"
        /\ Len(ret.val) = Len(call.names)
        /\ \A i \in DOMAIN call.names :
              ret.val[i] = IF BulkTable[call.names[i]] = PyNone THEN PyNone
                           ELSE convert_get_type(BulkTable[call.names[i]],
                                                 pickle_first).val

\* C5 (SpecSet): after any sadd / srem, smembers and sdiff return one decoded
\* element for every member of the store's set: as many elements as members.
C5_EveryMemberReturned ==
    call.op \in {"smembers", "sdiff"}
        => (ret.exc = "none" /\ Cardinality(ret.val) = Cardinality(members))

\* C6 (SpecKV): mset, hmset and hset(mapping=...) given an argument that is
\* no mapping raise the invalid-argument error (ValueError) and leave the
\* store as it was.
C6_NonMappingRejected ==
    [][(call'.op \in {"mset", "hmset", "hset"} /\ call'.mapping.kind = "list")
          => (ret'.exc = "ValueError" /\ UNCHANGED store)]_vars

\* C8 (SpecKV): keys, randomkey, type and hkeys never attempt pickle.loads on
\* what the store returns, valid UTF-8 or not.
C8_NoPickleOnNames ==
    call.op \in {"keys", "randomkey", "type", "hkeys"} => ~UsesLoads(ret.calls)

IsBulkWrite(c) ==
    \/ c.op \in {"sadd", "lpush", "rpush"}
    \/ (c.op \in {"mset", "hmset"} /\ c.mapping.kind = "dict")
    \/ (c.op = "hset" /\ c.mapping.kind = "dict" /\ Truthy(c.mapping))
BulkValues(c) ==
    IF c.op \in {"sadd", "lpush", "rpush"} THEN c.values
    ELSE [i \in DOMAIN c.mapping.items |-> c.mapping.items[i][2]]
\* the table a mapping call writes to holds, for the keys of the mapping as
\* they were given, the converted values, and is as before elsewhere
WrittenAsGiven(c, before, after) ==
    \A k \in KeyNames :
        after[k] = IF k \in PairKeys(c.mapping.items)
                   THEN PyBytes(ClientEncode(convert_set_type(Lookup(c.mapping.items, k)).val))
                   ELSE before[k]

\* C10 (SpecWrites): mset, hmset, hset(mapping=), sadd, lpush and rpush
\* convert every value before the one call to the store: when a value cannot
\* be pickled the call raises that error and the store is unchanged; when
\* all can, the mapping's keys are written as given with the converted values.
C10_AllOrNothing ==
    [][IsBulkWrite(call')
          => LET vals == BulkValues(call')
             IN  /\ (\E i \in DOMAIN vals : vals[i] = PyLambda)
                       => (ret'.exc = "PicklingError" /\ UNCHANGED store)
                 /\ ((\A i \in DOMAIN vals : vals[i] # PyLambda) /\ ret'.exc = "none")
                       => (/\ call'.op = "mset"
                               => WrittenAsGiven(call', strings, strings')
                           /\ call'.op \in {"hmset", "hset"}
                               => WrittenAsGiven(call', hashes, hashes'))]_vars

\* a bulk write of two values, one of which cannot be pickled, has failed on
\* a store that held data
C10_Witness ==
    /\ call.op = "mset"
    /\ Len(call.mapping.items) = 2
    /\ call.mapping.items[1][2] = PyNone
    /\ call.mapping.items[2][2] = PyLambda
    /\ ret.exc = "PicklingError"
    /\ \E k \in KeyNames : strings[k] # PyNone

---------------------------------------------------------------------------
(* Claims about the array codec, checked under SpecNp. *)

\* C7: an array of 1, 2 or 3 dimensions, each dimension 0 or more, comes
\* back from unserialize_np(serialize_np(arr)) with the same shape, type and
\* contents; the bytes are the 16-byte big-endian header (type, dim1, dim2,
\* dim3, unused dims 0) and the elements; more than 3 dimensions raise.
C7_ArrayRoundTrip ==
    LET n == Len(value.shape)
        dim(i) == IF i <= n THEN value.shape[i] ELSE 0
    IN  /\ (n \in {1, 2, 3}) => pc # "np_failed"
        /\ (n > 3 /\ pc # "np_start") => (pc = "np_failed" /\ ret.exc = "ValueError")
        /\ pc \in {"np_packed", "np_done"}
              => encoded.v = BE32(value.dtype) \o BE32(dim(1)) \o BE32(dim(2))
                                \o BE32(dim(3))
                                \o ToBytes(value.v, ItemSize(value.dtype))
        /\ pc = "np_done" => (ret.exc = "none" /\ ret.val = value)

====
